---- MODULE Spec2Model ----
(***************************************************************************)
(* A model of src/index.tsx: the financial dashboard component.            *)
(*                                                                         *)
(* JavaScript numbers are modelled as decimal fixed-point integers in      *)
(* units of 1/Scale (four decimal places, the precision of the literals in *)
(* the data table), so 0.5420 is 5420 and 1169.09 is 11690900.  A value is *)
(* a tagged record: t is what the value is ("number", "NaN", "undefined",  *)
(* "null", "string"), n its number and s its characters.  A string is a    *)
(* sequence of one-character strings.  A JavaScript object is the sequence *)
(* of its entries in own-property order (the order Object.keys lists       *)
(* them): integer-like keys ascending, then the other keys.                *)
(***************************************************************************)
EXTENDS Integers, Sequences, FiniteSets, TLC

VARIABLES
    data,              \* the module-level table (lines 35-81)
    chart,             \* the module-level chartData, or NotLoaded
    sorting,           \* useState<SortingState>([])
    columnVisibility,  \* useState({})
    chartRef,          \* useRef<HTMLDivElement>(null).current
    pending,           \* toPng promises awaited by exportChartToImage
    downloads,         \* the files the browser was made to download
    consoleErrors,     \* number of console.error calls
    uncaught,          \* exceptions that left an event handler
    exports,           \* export clicks so far
    lastEvent,         \* what the last handler that ran did
    fv, fm, fout       \* formatValue's arguments and its outcome

vars == <<data, chart, sorting, columnVisibility, chartRef, pending, downloads,
          consoleErrors, uncaught, exports, lastEvent, fv, fm, fout>>

-----------------------------------------------------------------------------
(* Bounds *)

NumYears == 2
MaxRecords == 3
MaxExports == 2

-----------------------------------------------------------------------------
(* Values *)

Scale == 10000

Num(n) == [t |-> "number", n |-> n, s |-> <<>>]
NaN == [t |-> "NaN", n |-> 0, s |-> <<>>]
Undefined == [t |-> "undefined", n |-> 0, s |-> <<>>]
Null == [t |-> "null", n |-> 0, s |-> <<>>]
StrV(chars) == [t |-> "string", n |-> 0, s |-> chars]

\* typeof v === 'number'
IsNumber(v) == v.t \in {"number", "NaN"}

IsFinite(v) == v.t = "number"

Abs(n) == IF n < 0 THEN -n ELSE n

-----------------------------------------------------------------------------
(* The data table *)

RevenueName == <<"R","e","v","e","n","u","e"," ","(","D","E","F","A","U","L","T",")">>
NOPBTName == <<"N","O","P","B","T"," ","(","D","E","F","A","U","L","T",")">>
ROICName == <<"R","O","I","C"," ","(","D","E","F","A","U","L","T",")">>
MarginsName == <<"E","B","I","T"," ","M","a","r","g","i","n","s">>

AllYears == <<"2017", "2018", "2019", "2020", "2021", "2022",
              "2023", "2024", "2025", "2026", "2027", "2028">>

RevenueValues == <<11690900, 13780100, 12683100, 7827400, 10592200, 17387400,
                   16766200, 16873300, 16598600, 16499000, 17175500, 17862500>>
NOPBTValues == <<4362700, 4967500, 3944900, -267400, 2990200, 8370200,
                 5497000, 4621300, 6158100, 6121100, 6372100, 6627000>>
ROICValues == <<5420, 6380, 3690, -210, 2510, 6120,
                3460, 2570, 3390, 3370, 3460, 3550>>

Years == SubSeq(AllYears, 1, NumYears)

YearSet == {Years[i] : i \in 1..NumYears}

\* The name and the values of row i.  The table of the source has three
\* rows; a longer snapshot continues with margin rows.
RowName(i) ==
    CASE i = 1 -> RevenueName
      [] i = 2 -> NOPBTName
      [] i = 3 -> ROICName
      [] OTHER -> MarginsName

RowValues(i) ==
    CASE i = 1 -> RevenueValues
      [] i = 2 -> NOPBTValues
      [] i = 3 -> ROICValues
      [] OTHER -> [y \in 1..12 |-> 1000 * i + y]

\* Row i as an object holding the period keys in keys: the year keys are
\* integer-like, so they come before "metric" in own-property order.
Row(i, keys) ==
    SelectSeq([y \in 1..NumYears |-> [key |-> Years[y], val |-> Num(RowValues(i)[y])]],
              LAMBDA e : e.key \in keys)
    \o <<[key |-> "metric", val |-> StrV(RowName(i))]>>

SourceData == [i \in 1..3 |-> Row(i, YearSet)]

\* The snapshots the projector is run on: up to MaxRecords rows, each with
\* any subset of the period keys (rectangular or not).
Snapshots ==
    UNION {{[i \in 1..k |-> Row(i, ks[i])] : ks \in [1..k -> SUBSET YearSet]}
           : k \in 0..MaxRecords}

IsRectangular(d) ==
    \A i, j \in 1..Len(d) :
        {d[i][x].key : x \in 1..Len(d[i])} = {d[j][x].key : x \in 1..Len(d[j])}

-----------------------------------------------------------------------------
(* Objects *)

\* Object.keys(obj)
ObjectKeys(obj) == [x \in 1..Len(obj) |-> obj[x].key]

\* obj[key]: undefined when obj has no such property
Get(obj, key) ==
    IF \E x \in 1..Len(obj) : obj[x].key = key
    THEN obj[CHOOSE x \in 1..Len(obj) : obj[x].key = key].val
    ELSE Undefined

\* v * 100 (ToNumber of undefined and of a non-numeric string is NaN, of
\* null is 0)
Times100(v) ==
    CASE v.t = "number" -> Num(v.n * 100)
      [] v.t = "null" -> Num(0)
      [] OTHER -> NaN

-----------------------------------------------------------------------------
(* chartData *)

NotLoaded == [status |-> "not loaded", points |-> <<>>]

PeriodKeys(obj) == SelectSeq(ObjectKeys(obj), LAMBDA key : key # "metric")

RoicOfMissingScale(d, year) == Get(d[3], year)

\* roic: data[2][year] * 100
RoicOf(d, year) == Times100(Get(d[3], year))

\* The map callback: one point per year
PointOf(d, year) ==
    [year |-> year, revenue |-> Get(d[1], year), nopbt |-> Get(d[2], year),
     roic |-> RoicOf(d, year)]

chartDataKeepsMetric(d) ==
    IF Len(d) = 0
    THEN [status |-> "TypeError", points |-> <<>>]
    ELSE LET years == ObjectKeys(d[1])
         IN  IF years = <<>>
             THEN [status |-> "ok", points |-> <<>>]
             ELSE IF Len(d) < 3
                  THEN [status |-> "TypeError", points |-> <<>>]
                  ELSE [status |-> "ok",
                        points |-> [x \in 1..Len(years) |-> PointOf(d, years[x])]]

\* Object.keys(data[0]) throws a TypeError when data[0] is undefined; the
\* map callback throws one at its first call when data[1] or data[2] is
\* undefined, and is never called when there is no period key.
chartData(d) ==
    IF Len(d) = 0
    THEN [status |-> "TypeError", points |-> <<>>]
    ELSE LET years == PeriodKeys(d[1])
         IN  IF years = <<>>
             THEN [status |-> "ok", points |-> <<>>]
             ELSE IF Len(d) < 3
                  THEN [status |-> "TypeError", points |-> <<>>]
                  ELSE [status |-> "ok",
                        points |-> [x \in 1..Len(years) |-> PointOf(d, years[x])]]

-----------------------------------------------------------------------------
(* formatValue *)

DigitChars == <<"0", "1", "2", "3", "4", "5", "6", "7", "8", "9">>

RECURSIVE Digits(_)
\* The decimal digits of a natural number
Digits(n) ==
    IF n < 10 THEN <<DigitChars[n + 1]>>
    ELSE Digits(n \div 10) \o <<DigitChars[(n % 10) + 1]>>

RECURSIVE Pow1000(_)
Pow1000(k) == IF k = 0 THEN 1 ELSE 1000 * Pow1000(k - 1)

\* String.prototype.includes
Includes(str, sub) ==
    \E i \in 0..(Len(str) - Len(sub)) : SubSeq(str, i + 1, i + Len(sub)) = sub

\* x.toFixed(1): the nearest tenth, the larger one of two equally near; a
\* negative x is written as "-" and the digits of -x
ToFixed1(x) ==
    IF x.t # "number" THEN <<"N", "a", "N">>
    ELSE LET tenths == (Abs(x.n) + Scale \div 20) \div (Scale \div 10)
         IN  (IF x.n < 0 THEN <<"-">> ELSE <<>>)
             \o Digits(tenths \div 10) \o <<".">> \o Digits(tenths % 10)

\* `${(value * 100).toFixed(1)}%`
PercentText(value) == ToFixed1(Times100(value)) \o <<"%">>

\* a / (1000^k) in hundredths, rounded half away from zero (a >= 0)
Hundredths(a, k) ==
    (a + ((Scale \div 100) * Pow1000(k)) \div 2) \div ((Scale \div 100) * Pow1000(k))

\* Intl.NumberFormat('en-US', {style: 'currency', currency: 'USD',
\* minimumFractionDigits: 2, maximumFractionDigits: 2, notation: 'compact'})
\* .format(value): the magnitude suffix is the one of the rounded number.
\* The numbers of the model are below 2^31 / Scale, so that the only
\* magnitude suffix they reach is K.
CompactCurrency(value) ==
    IF value.t # "number" THEN <<"$", "N", "a", "N">>
    ELSE LET a == Abs(value.n)
             k0 == IF a >= Scale * Pow1000(1) THEN 1 ELSE 0
             k == IF k0 < 1 /\ Hundredths(a, k0) >= 100000 THEN k0 + 1 ELSE k0
             h == Hundredths(a, k)
         IN  (IF value.n < 0 THEN <<"-">> ELSE <<>>) \o <<"$">>
             \o Digits(h \div 100) \o <<".">>
             \o Digits((h \div 10) % 10) \o Digits(h % 10)
             \o (IF k = 0 THEN <<>> ELSE <<"K">>)

IsPercentMetricRoicOnly(metric) == Includes(metric, <<"R", "O", "I", "C">>)

\* metric.includes('ROIC') || metric.includes('Margins')
IsPercentMetric(metric) ==
    \/ Includes(metric, <<"R", "O", "I", "C">>)
    \/ Includes(metric, <<"M", "a", "r", "g", "i", "n", "s">>)

NotCalled == [status |-> "not called", val |-> Undefined]

formatValueNameFirst(value, metric) ==
    IF IsPercentMetric(metric)
    THEN [status |-> "returned", val |-> StrV(PercentText(value))]
    ELSE IF ~IsNumber(value)
         THEN [status |-> "returned", val |-> value]
         ELSE [status |-> "returned", val |-> StrV(CompactCurrency(value))]

formatValue(value, metric) ==
    IF ~IsNumber(value)
    THEN [status |-> "returned", val |-> value]
    ELSE IF IsPercentMetric(metric)
         THEN [status |-> "returned", val |-> StrV(PercentText(value))]
         ELSE [status |-> "returned", val |-> StrV(CompactCurrency(value))]

\* The values formatValue is called with: the cells of the table, numbers
\* around the rounding and magnitude boundaries, NaN, and values that are
\* not numbers.
FormatValues ==
    {Num(RowValues(i)[y]) : i \in 1..MaxRecords, y \in 1..NumYears}
    \cup {Num(RowValues(i)[4]) : i \in 1..3}
    \cup {Num(0), Num(5), Num(-4), Num(25), Num(9999949), Num(9999950),
          Num(21000000), Num(-9999950), NaN, Undefined, Null,
          StrV(<<"N", "/", "A">>)}

FormatNames ==
    {RevenueName, NOPBTName, ROICName, MarginsName,
     <<"r", "o", "i", "c">>, <<"R", "O", "I">>, <<"M", "a", "r", "g", "i", "n">>,
     <<"m", "a", "r", "g", "i", "n", "s">>, <<>>}

-----------------------------------------------------------------------------
(* The table: sorting and column visibility *)

\* The columns array: 'metric', then one column per year
ColumnIds == <<"metric">> \o Years

ColumnSet == {ColumnIds[i] : i \in 1..Len(ColumnIds)}

\* column.getIsSorted()
GetIsSorted(s, c) ==
    IF \E x \in 1..Len(s) : s[x].id = c
    THEN IF s[CHOOSE x \in 1..Len(s) : s[x].id = c].desc THEN "desc" ELSE "asc"
    ELSE "false"

\* column.toggleSorting(desc) with a given desc and no multi-sort: the
\* column's entry gets desc when it is the last entry, otherwise the sorting
\* is replaced by that one entry; a given desc never removes the sorting.
ToggleSorting(old, c, desc) ==
    LET existing == \E x \in 1..Len(old) : old[x].id = c
        isLast == Len(old) > 0 /\ old[Len(old)].id = c
    IN  IF Len(old) > 0 /\ ~isLast
        THEN <<[id |-> c, desc |-> desc]>>
        ELSE IF existing
             THEN [x \in 1..Len(old) |->
                      IF old[x].id = c THEN [id |-> c, desc |-> desc] ELSE old[x]]
             ELSE <<[id |-> c, desc |-> desc]>>

HeaderClickDescInverted(s, c) == GetIsSorted(s, c) # "asc"

\* The argument of toggleSorting in a year header's onClick
HeaderClickDesc(s, c) == GetIsSorted(s, c) = "asc"

\* column.getIsVisible(): a column is visible unless the state says false
GetIsVisible(cv, c) == IF c \in DOMAIN cv THEN cv[c] ELSE TRUE

\* column.toggleVisibility(value)
ToggleVisibility(cv, c, value) ==
    [x \in (DOMAIN cv) \cup {c} |-> IF x = c THEN value ELSE cv[x]]

\* getSortedRowModel(): the rows ordered by the sorted column's value,
\* rows of equal value in their original order
SortedRows(d, s) ==
    IF s = <<>> THEN d
    ELSE LET c == s[1].id
             v(i) == Get(d[i], c).n
             Before(i, j) ==
                 \/ (IF s[1].desc THEN v(i) > v(j) ELSE v(i) < v(j))
                 \/ (v(i) = v(j) /\ i < j)
             Place(i) == 1 + Cardinality({j \in 1..Len(d) : Before(j, i)})
         IN  [x \in 1..Len(d) |-> d[CHOOSE i \in 1..Len(d) : Place(i) = x]]

\* The rows as the table body shows them: sorted, the hidden columns left out
DisplayedRows(d, s, cv) ==
    [x \in 1..Len(d) |->
        SelectSeq(SortedRows(d, s)[x], LAMBDA e : GetIsVisible(cv, e.key))]

-----------------------------------------------------------------------------
(* The export actions *)

ExcelFile == "HCC_financial_data.xlsx"
ImageFile == "financial_performance_trends.png"

ExportInputDisplayed(d, s, cv) == DisplayedRows(d, s, cv)

\* The argument of XLSX.utils.json_to_sheet
ExportInput(d, s, cv) == d

RefUnavailableNever(ref) == FALSE

\* chartRef.current === null
RefUnavailable(ref) == ref = "null"

\* What a handler finds when it starts
Before == [downloads |-> downloads, consoleErrors |-> consoleErrors,
           uncaught |-> uncaught, pending |-> pending]

NoEvent == [op |-> "none", col |-> "", was |-> "", ref |-> "", failed |-> FALSE,
            rows |-> <<>>,
            before |-> [downloads |-> <<>>, consoleErrors |-> 0,
                        uncaught |-> 0, pending |-> 0]]

Event(op) == [NoEvent EXCEPT !.op = op, !.before = Before]

-----------------------------------------------------------------------------
(* The component *)

formatVars == <<fv, fm, fout>>
tableVars == <<sorting, columnVisibility>>
exportVars == <<pending, downloads, consoleErrors, uncaught, exports>>

\* The state of a freshly constructed component
InitComponent ==
    /\ sorting = <<>>
    /\ columnVisibility = [c \in {} |-> TRUE]
    /\ chartRef = "null"
    /\ pending = 0
    /\ downloads = <<>>
    /\ consoleErrors = 0
    /\ uncaught = 0
    /\ exports = 0
    /\ lastEvent = NoEvent

Init ==
    /\ data = SourceData
    /\ chart = chartData(SourceData)
    /\ InitComponent
    /\ fv = Undefined
    /\ fm = <<>>
    /\ fout = NotCalled

\* React attaches the chart's div to chartRef when it commits the render
Mount ==
    /\ chartRef = "null"
    /\ chartRef' = "div"
    /\ lastEvent' = Event("mount")
    /\ UNCHANGED <<data, chart, tableVars, exportVars, formatVars>>

\* onClick of the header button of year column c
HeaderClick(c) ==
    /\ sorting' = ToggleSorting(sorting, c, HeaderClickDesc(sorting, c))
    /\ lastEvent' = [Event("sort") EXCEPT !.col = c, !.was = GetIsSorted(sorting, c)]
    /\ UNCHANGED <<data, chart, columnVisibility, chartRef, exportVars, formatVars>>

\* onCheckedChange of column c's checkbox item: the checkbox reports the
\* opposite of what it shows
VisibilityChange(c) ==
    /\ columnVisibility' =
           ToggleVisibility(columnVisibility, c, ~GetIsVisible(columnVisibility, c))
    /\ lastEvent' = [Event("visibility") EXCEPT !.col = c]
    /\ UNCHANGED <<data, chart, sorting, chartRef, exportVars, formatVars>>

\* exportToExcel: the xlsx calls run outside any try, so what they throw
\* leaves the handler
ExportToExcel(outcome) ==
    /\ exports < MaxExports
    /\ exports' = exports + 1
    /\ lastEvent' = [Event("exportToExcel") EXCEPT
                        !.rows = ExportInput(data, sorting, columnVisibility),
                        !.failed = (outcome = "throws")]
    /\ IF outcome = "throws"
       THEN /\ uncaught' = uncaught + 1
            /\ UNCHANGED downloads
       ELSE /\ downloads' = Append(downloads, ExcelFile)
            /\ UNCHANGED uncaught
    /\ UNCHANGED <<data, chart, tableVars, chartRef, pending, consoleErrors, formatVars>>

\* exportChartToImage up to its await
ExportChartToImage ==
    /\ exports < MaxExports
    /\ exports' = exports + 1
    /\ lastEvent' = [Event("exportChartToImage") EXCEPT !.ref = chartRef]
    /\ IF RefUnavailable(chartRef)
       THEN UNCHANGED pending
       ELSE pending' = pending + 1
    /\ UNCHANGED <<data, chart, tableVars, chartRef, downloads, consoleErrors,
                   uncaught, formatVars>>

\* exportChartToImage after its await, toPng's promise fulfilled: the link
\* is clicked
ToPngResolved ==
    /\ pending > 0
    /\ pending' = pending - 1
    /\ downloads' = Append(downloads, ImageFile)
    /\ lastEvent' = Event("toPngResolved")
    /\ UNCHANGED <<data, chart, tableVars, chartRef, consoleErrors, uncaught,
                   exports, formatVars>>

\* exportChartToImage after its await, toPng's promise rejected: the catch
\* block logs
ToPngRejected ==
    /\ pending > 0
    /\ pending' = pending - 1
    /\ consoleErrors' = consoleErrors + 1
    /\ lastEvent' = [Event("toPngRejected") EXCEPT !.failed = TRUE]
    /\ UNCHANGED <<data, chart, tableVars, chartRef, downloads, uncaught,
                   exports, formatVars>>

Next ==
    \/ Mount
    \/ \E c \in YearSet : HeaderClick(c)
    \/ \E c \in ColumnSet : VisibilityChange(c)
    \/ \E outcome \in {"ok", "throws"} : ExportToExcel(outcome)
    \/ ExportChartToImage
    \/ ToPngResolved
    \/ ToPngRejected

Spec == Init /\ [][Next]_vars

-----------------------------------------------------------------------------
(* The projector on every snapshot *)

InitProjector ==
    /\ data \in Snapshots
    /\ chart = NotLoaded
    /\ InitComponent
    /\ fv = Undefined
    /\ fm = <<>>
    /\ fout = NotCalled

\* The module is evaluated: chartData is computed from data
LoadModule ==
    /\ chart = NotLoaded
    /\ chart' = chartData(data)
    /\ UNCHANGED <<data, tableVars, chartRef, exportVars, lastEvent, formatVars>>

NextProjector == LoadModule

SpecProjector == InitProjector /\ [][NextProjector]_vars

-----------------------------------------------------------------------------
(* The formatter on every value and name *)

InitFormatter ==
    /\ data = SourceData
    /\ chart = chartData(SourceData)
    /\ InitComponent
    /\ fv \in FormatValues
    /\ fm \in FormatNames
    /\ fout = NotCalled

CallFormatValue ==
    /\ fout = NotCalled
    /\ fout' = formatValue(fv, fm)
    /\ UNCHANGED <<data, chart, tableVars, chartRef, exportVars, lastEvent, fv, fm>>

NextFormatter == CallFormatValue

SpecFormatter == InitFormatter /\ [][NextFormatter]_vars

-----------------------------------------------------------------------------
(* Properties of the projector (checked under SpecProjector) *)

Loaded == chart.status # "not loaded"

\* The period keys of the first record: its keys other than 'metric', in
\* the record's order
FirstRecordPeriods ==
    SelectSeq([x \in 1..Len(data[1]) |-> data[1][x].key], LAMBDA k : k # "metric")

OnePointPerPeriod ==
    /\ chart.status = "ok"
    /\ Len(chart.points) = Len(FirstRecordPeriods)
    /\ \A x \in 1..Len(chart.points) : chart.points[x].year = FirstRecordPeriods[x]

\* C1, as stated: for every snapshot of at least one record the projector
\* yields exactly one point per period key of the first record, in the
\* order of that record's keys.
C1_Original == (Loaded /\ Len(data) >= 1) => OnePointPerPeriod

\* C1, amended: for every snapshot of at least three records (so that the
\* series indices 0, 1 and 2 exist) the projector yields exactly one point
\* per period key of the first record, in the order of that record's keys.
C1_OnePointPerPeriod == (Loaded /\ Len(data) >= 3) => OnePointPerPeriod

C1_Witness ==
    /\ Loaded
    /\ Len(data) >= 3
    /\ Len(chart.points) = NumYears
    /\ ~IsRectangular(data)

\* C2: for a rectangular snapshot of three records, the point of each
\* period p has revenue = record 0's value at p, nopbt = record 1's value
\* at p and roic = record 2's value at p times 100; the table's 2017 column
\* gives revenue 1169.09, nopbt 436.27, roic 54.20.
C2_PointValues ==
    /\ (Loaded /\ Len(data) = 3 /\ IsRectangular(data)) =>
           /\ chart.status = "ok"
           /\ Len(chart.points) = Len(data[1]) - 1
           /\ \A x \in 1..Len(chart.points) :
                  /\ chart.points[x].year = data[1][x].key
                  /\ chart.points[x].revenue = data[1][x].val
                  /\ chart.points[x].nopbt = data[2][x].val
                  /\ chart.points[x].roic.t = "number"
                  /\ chart.points[x].roic.n = data[3][x].val.n * 100
    /\ (Loaded /\ data = SourceData) =>
           chart.points[1] = [year |-> "2017", revenue |-> Num(11690900),
                              nopbt |-> Num(4362700), roic |-> Num(542000)]

C2_Witness ==
    /\ Loaded
    /\ data = SourceData
    /\ chart.points[1].roic = Num(542000)

\* C3: a snapshot of zero records projects to the empty sequence, without
\* failure.
C3_EmptySnapshot ==
    (Loaded /\ Len(data) = 0) => (chart.status = "ok" /\ chart.points = <<>>)

\* C4: when one of the series indices 0, 1, 2 is out of range the projector
\* fails, and it emits no point holding an undefined or NaN value.
C4_InvalidSelectionFails ==
    (Loaded /\ Len(data) < 3) =>
        /\ chart.status # "ok"
        /\ \A x \in 1..Len(chart.points) :
               /\ chart.points[x].revenue.t = "number"
               /\ chart.points[x].nopbt.t = "number"
               /\ chart.points[x].roic.t = "number"

-----------------------------------------------------------------------------
(* Properties of the formatter (checked under SpecFormatter) *)

IsDigit(c) == \E d \in 1..10 : DigitChars[d] = c

DigitVal(c) == (CHOOSE d \in 1..10 : DigitChars[d] = c) - 1

RECURSIVE ParseNat(_)
ParseNat(chars) ==
    IF chars = <<>> THEN 0
    ELSE 10 * ParseNat(SubSeq(chars, 1, Len(chars) - 1)) + DigitVal(chars[Len(chars)])

AllDigits(chars) == chars # <<>> /\ \A x \in 1..Len(chars) : IsDigit(chars[x])

\* text is sign, digits, ".", `places` digits; its value in units of
\* 10^-places is within half a unit of a / unit
IsRounded(text, places, a, unit) ==
    LET L == Len(text)
    IN  /\ L >= places + 2
        /\ text[L - places] = "."
        /\ AllDigits(SubSeq(text, 1, L - places - 1))
        /\ AllDigits(SubSeq(text, L - places + 1, L))
        /\ LET shown == ParseNat(SubSeq(text, 1, L - places - 1)
                                 \o SubSeq(text, L - places + 1, L))
           IN  2 * Abs(shown * unit - a) <= unit

Unsigned(text) == IF text # <<>> /\ text[1] = "-" THEN Tail(text) ELSE text

HasSign(text) == text # <<>> /\ text[1] = "-"

\* out is value * 100 to one decimal place, followed by "%"
IsPercentForm(out, value) ==
    /\ out.t = "string"
    /\ out.s # <<>>
    /\ out.s[Len(out.s)] = "%"
    /\ LET body == SubSeq(out.s, 1, Len(out.s) - 1)
       IN  IF value.t = "NaN" THEN body = <<"N", "a", "N">>
           ELSE /\ HasSign(body) <=> value.n < 0
                /\ IsRounded(Unsigned(body), 1, Abs(value.n), Scale \div 1000)

\* out is value as US dollars in compact notation with two decimals: a sign,
\* "$", a number below 1000 (of at least 1 when a suffix follows) and the
\* suffix of its magnitude
IsCurrencyForm(out, value) ==
    /\ out.t = "string"
    /\ LET body == Unsigned(out.s)
       IN  /\ body # <<>>
           /\ body[1] = "$"
           /\ IF value.t = "NaN" THEN Tail(body) = <<"N", "a", "N">>
              ELSE LET k == IF body[Len(body)] = "K" THEN 1 ELSE 0
                       digits == SubSeq(body, 2, Len(body) - k)
                   IN  /\ HasSign(out.s) <=> value.n < 0
                       /\ IsRounded(digits, 2, Abs(value.n),
                                    (Scale \div 100) * Pow1000(k))
                       /\ Len(digits) <= 6
                       /\ k = 1 => digits[1] # "0"

\* The names of FormatNames that contain "ROIC" or "Margins"
PercentNames == {ROICName, MarginsName}

\* C5: for every numeric value and name, formatValue returns the percentage
\* form if the name contains "ROIC" or "Margins" (case-sensitive) and the
\* compact two-decimal US-dollar form for every other name.
C5_FormatByName ==
    (fout.status # "not called" /\ IsNumber(fv)) =>
        /\ fout.status = "returned"
        /\ fm \in PercentNames =>
               (IsPercentForm(fout.val, fv) /\ ~IsCurrencyForm(fout.val, fv))
        /\ fm \notin PercentNames =>
               (IsCurrencyForm(fout.val, fv) /\ ~IsPercentForm(fout.val, fv))

C5_Witness ==
    /\ fv = Num(5420)
    /\ fm = ROICName
    /\ fout.val = StrV(<<"5", "4", ".", "2", "%">>)

\* C6: formatValue throws for no finite number, and returns a value that is
\* not a number unchanged whatever the name is.
C6_PassThrough ==
    /\ fout.status # "not called" => fout.status = "returned"
    /\ (fout.status # "not called" /\ ~IsNumber(fv)) => fout.val = fv

C6_Witness ==
    /\ fv = StrV(<<"N", "/", "A">>)
    /\ fm = ROICName
    /\ fout.status = "returned"

-----------------------------------------------------------------------------
(* Properties of the component (checked under Spec) *)

\* What the last handler did, read off the state it left
Logged == consoleErrors > lastEvent.before.consoleErrors
Escaped == uncaught > lastEvent.before.uncaught
Downloaded == downloads # lastEvent.before.downloads
CalledToPng == pending > lastEvent.before.pending

\* C7: a failure of the collaborator of either export action is caught and
\* logged, does not leave the handler, and downloads no file.
C7_FailuresCaught ==
    lastEvent.failed => (Logged /\ ~Escaped /\ ~Downloaded)

NullRefExport == lastEvent.op = "exportChartToImage" /\ lastEvent.ref = "null"

C9_DataUntouched ==
    /\ data = SourceData
    /\ chart.status = "ok"
    /\ chart.points = [x \in 1..NumYears |-> PointOf(SourceData, Years[x])]
    /\ lastEvent.op = "exportToExcel" =>
           /\ lastEvent.rows = SourceData
           /\ \A i \in 1..Len(lastEvent.rows) : \A y \in 1..NumYears :
                  lastEvent.rows[i][y].val = Num(RowValues(i)[y])

C9_Witness ==
    /\ lastEvent.op = "exportToExcel"
    /\ sorting # <<>>
    /\ SortedRows(data, sorting) # data
    /\ \E c \in ColumnSet : ~GetIsVisible(columnVisibility, c)

\* The sorting a click on c's header must leave, given what c's sort was
SortingAfterClick ==
    <<[id |-> lastEvent.col, desc |-> (lastEvent.was = "asc")]>>

SortingRule ==
    /\ Len(sorting) <= 1
    /\ lastEvent.op = "sort" => sorting = SortingAfterClick

\* C10: the sorting starts empty and names at most one column; a click on a
\* year header leaves that column sorted descending if it was sorted
\* ascending and ascending in every other case; once a header has been
\* clicked the table is never unsorted again.
C10_SortToggle ==
    /\ sorting = <<>>
    /\ [][SortingRule' /\ (sorting # <<>> => sorting' # <<>>)]_vars

C10_Witness ==
    /\ lastEvent.op = "sort"
    /\ lastEvent.was = "asc"
    /\ sorting = <<[id |-> Years[NumYears], desc |-> TRUE]>>

====
